---- MODULE Spec2Model ----
(***************************************************************************)
(* A model of theanets/activations.py: the build function, the stateless   *)
(* function table, the composition of '+'-joined names, and the parametric *)
(* activations Prelu, LGrelu and Maxout.                                   *)
(*                                                                         *)
(* Python strings are sequences of tokens (a token is a run of characters  *)
(* without '+', or the character '+' itself), so that "'+' in name" and    *)
(* "name.split('+')" are computed.  Python objects live in `heap`, and an  *)
(* object is referred to by its index: the four module-level callables     *)
(* that the table shares between calls (TT.tanh, TT.nnet.sigmoid, softmax, *)
(* TT.nnet.softplus) come first, every lambda of the table and every       *)
(* Activation instance is allocated by the call that creates it.           *)
(* theano.shared allocations are the entries of `tensors`.                 *)
(***************************************************************************)
EXTENDS Integers, Sequences, FiniteSets, TLC

VARIABLES heap, tensors, returned, last

vars == <<heap, tensors, returned, last>>

\* Bounds of the model: objects a run may allocate, and the inputs |x| of a call.
MaxHeap == 2
MaxX == 2

XRange == (0 - MaxX)..MaxX

Abs(x) == IF x < 0 THEN 0 - x ELSE x

----------------------------------------------------------------------------
\* Strings

Contains(s, tok) == \E i \in 1..Len(s) : s[i] = tok

RECURSIVE split(_, _)
split(s, sep) ==
    IF ~Contains(s, sep) THEN <<s>>
    ELSE LET i == CHOOSE k \in 1..Len(s) :
                      s[k] = sep /\ \A j \in 1..(k - 1) : s[j] # sep
         IN <<SubSeq(s, 1, i - 1)>> \o split(SubSeq(s, i + 1, Len(s)), sep)

\* The two kinds of value the first argument of build takes.
Str(s) == [kind |-> "str", s |-> s, ref |-> 0]
Obj(r) == [kind |-> "obj", s |-> <<>>, ref |-> r]

----------------------------------------------------------------------------
\* The layer, an external collaborator: its size and its naming function.

Layers == {[name |-> "hid1", size |-> 2], [name |-> "out", size |-> 3]}

NoLayer == [name |-> "", size |-> 0]

_fmt(layer, string) == <<layer.name, ".", string>>

----------------------------------------------------------------------------
\* Keyword arguments and the Python values they carry

PyInt(v) == [type |-> "int", v |-> v]
PyStr(v) == [type |-> "str", v |-> v]

NoKwargs == <<>>

PiecesKwargs == {[pieces |-> PyInt(0)], [pieces |-> PyInt(0 - 1)], [pieces |-> PyInt(2)],
                 [pieces |-> PyStr(2)]}

----------------------------------------------------------------------------
\* Objects

BlankObj ==
    [cls |-> "function", fn |-> "", name |-> <<>>, nameIsList |-> FALSE,
     hasParams |-> FALSE, params |-> <<>>, layer |-> NoLayer, kwargs |-> NoKwargs,
     pieces |-> 0, gain |-> 0, leak |-> 0, slope |-> 0, intercept |-> 0,
     a |-> 0, b |-> 0]

\* TT.tanh, TT.nnet.sigmoid, softmax, TT.nnet.softplus: one object each, whatever
\* the number of build calls.
InitHeap ==
    << [BlankObj EXCEPT !.cls = "Elemwise", !.fn = "tanh"],
       [BlankObj EXCEPT !.cls = "Elemwise", !.fn = "sigmoid"],
       [BlankObj EXCEPT !.fn = "softmax"],
       [BlankObj EXCEPT !.cls = "Elemwise", !.fn = "softplus"] >>

NShared == Len(InitHeap)

ActivationClasses == {"Activation", "Prelu", "LGrelu", "Maxout"}

isinstance(o, base) == base = "Activation" /\ o.cls \in ActivationClasses

Ok(h, ref) == [h |-> h, exc |-> "", ref |-> ref]

Raise(h, e) == [h |-> h, exc |-> e, ref |-> 0]

Alloc(h, o) == [h EXCEPT !.heap = Append(h.heap, o)]

----------------------------------------------------------------------------
\* The function table of build

SharedKeys == {<<"tanh">>, <<"logistic">>, <<"sigmoid">>, <<"softmax">>, <<"softplus">>}

LambdaKeys == {<<"linear">>, <<"relu">>, <<"rect:max">>, <<"rect:minmax">>,
               <<"norm:mean">>, <<"norm:max">>, <<"norm:std">>, <<"norm:z">>}

TableKeys == SharedKeys \cup LambdaKeys

SharedRef(key) ==
    CASE key = <<"tanh">> -> 1
      [] key = <<"logistic">> -> 2
      [] key = <<"sigmoid">> -> 2
      [] key = <<"softmax">> -> 3
      [] key = <<"softplus">> -> 4

\* {...}.get(name) with a default: what a table with a fallback entry would do.
TableGetDefault(h, key) ==
    IF key \in SharedKeys THEN Ok(h, SharedRef(key))
    ELSE IF key \in LambdaKeys
         THEN Ok(Alloc(h, [BlankObj EXCEPT !.fn = key[1]]), Len(h.heap) + 1)
         ELSE Ok(Alloc(h, [BlankObj EXCEPT !.fn = "linear"]), Len(h.heap) + 1)

\* {...}.get(name): the shared callable, a lambda made by this evaluation of the
\* dict, or None (ref 0).
TableGet(h, key) ==
    IF key \in SharedKeys THEN Ok(h, SharedRef(key))
    ELSE IF key \in LambdaKeys
         THEN Ok(Alloc(h, [BlankObj EXCEPT !.fn = key[1]]), Len(h.heap) + 1)
         ELSE Ok(h, 0)

\* act.name = name; act.params = []
SetAttrs(h, ref, name) ==
    [h EXCEPT !.heap[ref] = [@ EXCEPT !.name = name, !.nameIsList = FALSE,
                                      !.hasParams = TRUE, !.params = <<>>]]

----------------------------------------------------------------------------
\* numpy and theano

Ones == [num |-> 1, den |-> 1]

Tenth == [num |-> 1, den |-> 10]

\* np.ones(shape, FLOAT): every dimension an integer, none negative.
np_ones(shape) ==
    IF \E i \in 1..Len(shape) : shape[i].type # "int" THEN [exc |-> "TypeError", shape |-> <<>>]
    ELSE IF \E i \in 1..Len(shape) : shape[i].v < 0 THEN [exc |-> "ValueError", shape |-> <<>>]
    ELSE [exc |-> "", shape |-> [i \in 1..Len(shape) |-> shape[i].v]]

\* theano.shared(value, name=name): a new shared variable.
shared(h, shape, fill, name) ==
    [h EXCEPT !.tensors = Append(h.tensors, [name |-> name, shape |-> shape, fill |-> fill])]

----------------------------------------------------------------------------
\* The Activation classes

Activation__init__(cls, name, layer, kwargs) ==
    [BlankObj EXCEPT !.cls = cls, !.fn = cls, !.name = name, !.layer = layer,
                     !.kwargs = kwargs, !.hasParams = TRUE, !.params = <<>>]

Prelu__init__(h, name, layer, kwargs) ==
    LET self == Activation__init__("Prelu", name, layer, kwargs)
        v == np_ones(<<PyInt(layer.size)>>)
        h1 == shared(h, v.shape, Tenth, _fmt(layer, "leak"))
        leak == Len(h1.tensors)
        self1 == [self EXCEPT !.leak = leak, !.params = Append(self.params, leak)]
    IN  Ok(Alloc(h1, self1), Len(h1.heap) + 1)

\* LGrelu.__init__ with the two appends exchanged.
LGrelu__init__Swapped(h, name, layer, kwargs) ==
    LET self == Activation__init__("LGrelu", name, layer, kwargs)
        v == np_ones(<<PyInt(layer.size)>>)
        h1 == shared(h, v.shape, Ones, _fmt(layer, "gain"))
        gain == Len(h1.tensors)
        h2 == shared(h1, v.shape, Tenth, _fmt(layer, "leak"))
        leak == Len(h2.tensors)
        self2 == [self EXCEPT !.gain = gain, !.leak = leak, !.params = <<leak, gain>>]
    IN  Ok(Alloc(h2, self2), Len(h2.heap) + 1)

LGrelu__init__(h, name, layer, kwargs) ==
    LET self == Activation__init__("LGrelu", name, layer, kwargs)
        v == np_ones(<<PyInt(layer.size)>>)
        h1 == shared(h, v.shape, Ones, _fmt(layer, "gain"))
        gain == Len(h1.tensors)
        self1 == [self EXCEPT !.gain = gain, !.params = Append(self.params, gain)]
        h2 == shared(h1, v.shape, Tenth, _fmt(layer, "leak"))
        leak == Len(h2.tensors)
        self2 == [self1 EXCEPT !.leak = leak, !.params = Append(self1.params, leak)]
    IN  Ok(Alloc(h2, self2), Len(h2.heap) + 1)

Maxout__init__(h, name, layer, kwargs) ==
    LET self == Activation__init__("Maxout", name, layer, kwargs)
    IN  IF "pieces" \notin DOMAIN kwargs THEN Raise(h, "KeyError")
        ELSE LET pieces == kwargs["pieces"]
                 m == np_ones(<<PyInt(layer.size), pieces>>)
             IN  IF m.exc # "" THEN Raise(h, m.exc)
                 ELSE LET h1 == shared(h, m.shape, Ones, _fmt(layer, "slope"))
                          slope == Len(h1.tensors)
                          self1 == [self EXCEPT !.pieces = pieces.v, !.slope = slope,
                                                !.params = Append(self.params, slope)]
                          b == np_ones(<<pieces>>)
                          h2 == shared(h1, b.shape, Ones, _fmt(layer, "intercept"))
                          intercept == Len(h2.tensors)
                          self2 == [self1 EXCEPT !.intercept = intercept,
                                                 !.params = Append(self1.params, intercept)]
                      IN  Ok(Alloc(h2, self2), Len(h2.heap) + 1)

\* The registry of the Registrar metaclass: each class under its lower-cased name
\* and under its __extra_registration_keys__.
Registry(key) ==
    CASE key \in {<<"prelu">>, <<"leaky-relu">>} -> "Prelu"
      [] key \in {<<"lgrelu">>, <<"leaky-gain-relu">>} -> "LGrelu"
      [] key = <<"maxout">> -> "Maxout"
      [] OTHER -> ""

RegistryKeys == {<<"prelu">>, <<"leaky-relu">>, <<"lgrelu">>, <<"leaky-gain-relu">>,
                 <<"maxout">>}

\* Activation.build(key, *args, **kwargs): look the class up, construct it.
Activation_build(h, key, args, kwargs) ==
    LET cls == Registry(key)
    IN  CASE cls = "" -> Raise(h, "UnknownActivation")
          [] cls = "Prelu" -> Prelu__init__(h, args[1], args[2], kwargs)
          [] cls = "LGrelu" -> LGrelu__init__(h, args[1], args[2], kwargs)
          [] cls = "Maxout" -> Maxout__init__(h, args[1], args[2], kwargs)

----------------------------------------------------------------------------
\* build

\* str(v) as '%s' formats it: a string as it is, a one-element list as its repr.
PyFormat(o) == IF o.nameIsList THEN <<"['">> \o o.name \o <<"']">> ELSE o.name

\* compose(a, b): a new lambda with a name attribute, and no params attribute.
compose(h, a, b) ==
    LET c == [BlankObj EXCEPT !.fn = "compose", !.a = a, !.b = b,
                    !.name = PyFormat(h.heap[b]) \o <<"(">> \o PyFormat(h.heap[a]) \o <<")">>,
                    !.nameIsList = TRUE]
    IN  Ok(Alloc(h, c), Len(h.heap) + 1)

RECURSIVE build(_, _, _)
RECURSIVE reduce_compose(_, _, _, _)

\* functools.reduce(compose, (build(n) for n in names)): the generator is consumed
\* one element at a time, each element being the call build(n), with one positional
\* argument and no keyword.
reduce_compose(h, acc, names, i) ==
    IF i > Len(names) THEN Ok(h, acc)
    ELSE LET r == build(h, <<Str(names[i])>>, NoKwargs)
         IN  IF r.exc # "" THEN r
             ELSE IF i = 1 THEN reduce_compose(r.h, r.ref, names, 2)
             ELSE LET c == compose(r.h, acc, r.ref)
                  IN  reduce_compose(c.h, c.ref, names, i + 1)

\* build(name, layer, **kwargs), called with the positional arguments args.
build(h, args, kwargs) ==
    IF Len(args) < 2 THEN Raise(h, "TypeError")
    ELSE LET name == args[1]
             layer == args[2]
         IN  IF name.kind = "obj" /\ isinstance(h.heap[name.ref], "Activation")
             THEN Ok(h, name.ref)
             ELSE IF name.kind = "obj" THEN Raise(h, "TypeError")
             ELSE IF Contains(name.s, "+")
             THEN reduce_compose(h, 0, split(name.s, "+"), 1)
             ELSE LET act == TableGet(h, name.s)
                  IN  IF act.ref # 0
                      THEN Ok(SetAttrs(act.h, act.ref, name.s), act.ref)
                      ELSE Activation_build(h, name.s, <<name.s, layer>>, kwargs)

----------------------------------------------------------------------------
\* Applying an activation to one element x of a tensor

Num(v) == [tag |-> "num", v |-> v]

App(f, arg) == [tag |-> "app", fn |-> f, arg |-> arg]

NoValue == [tag |-> "none"]

\* lambda x: (x - abs(x)) / 2, the negative part taken for the positive one.
reluNegativePart(x) == (x - Abs(x)) \div 2

\* 'relu': lambda x: (x + abs(x)) / 2.  The numerator is even for an integer x.
relu(x) == (x + Abs(x)) \div 2

\* 'rect:max': lambda x: (1 + x - abs(x - 1)) / 2
rect_max(x) == (1 + x - Abs(x - 1)) \div 2

\* 'rect:minmax': lambda x: (1 + abs(x) - abs(x - 1)) / 2
rect_minmax(x) == (1 + Abs(x) - Abs(x - 1)) \div 2

\* gain * (x + abs(x)) / 2 + leak * (x - abs(x)) / 2 as an expression over the
\* shared variables gain and leak (gain 0: no factor).
Affine(gain, leak, x) ==
    [tag |-> "affine", gain |-> gain, pos |-> x + Abs(x), leak |-> leak, neg |-> x - Abs(x)]

\* (x[..., None] * slope + intercept).max(axis=-1) as an expression
MaxPieces(slope, intercept, x) ==
    [tag |-> "maxout", slope |-> slope, intercept |-> intercept, x |-> x]

RECURSIVE Apply(_, _, _)
Apply(h, ref, v) ==
    LET o == h[ref]
    IN  CASE o.fn = "compose" -> Apply(h, o.b, Apply(h, o.a, v))
          [] o.fn = "linear" -> v
          [] o.fn = "relu" /\ v.tag = "num" -> Num(relu(v.v))
          [] o.fn = "rect:max" /\ v.tag = "num" -> Num(rect_max(v.v))
          [] o.fn = "rect:minmax" /\ v.tag = "num" -> Num(rect_minmax(v.v))
          [] o.fn = "Prelu" /\ v.tag = "num" -> Affine(0, o.leak, v.v)
          [] o.fn = "LGrelu" /\ v.tag = "num" -> Affine(o.gain, o.leak, v.v)
          [] o.fn = "Maxout" /\ v.tag = "num" -> MaxPieces(o.slope, o.intercept, v.v)
          [] OTHER -> App(o.fn, v)

----------------------------------------------------------------------------
\* The state machine

NoCall == [op |-> "none", name |-> <<>>, kwargs |-> NoKwargs, obj |-> 0, exc |-> "",
           ref |-> 0, nt |-> 0, x |-> 0, y |-> NoValue]

Init ==
    /\ heap = InitHeap
    /\ tensors = <<>>
    /\ returned = {}
    /\ last = NoCall

\* build(name, layer, **kwargs) with a string
Build(name, layer, kwargs) ==
    LET r == build([heap |-> heap, tensors |-> tensors], <<Str(name), layer>>, kwargs)
    IN  /\ Len(r.h.heap) <= NShared + MaxHeap
        /\ heap' = r.h.heap
        /\ tensors' = r.h.tensors
        /\ returned' = IF r.exc = "" THEN returned \cup {[key |-> name, ref |-> r.ref]}
                       ELSE returned
        /\ last' = [NoCall EXCEPT !.op = "build", !.name = name, !.kwargs = kwargs,
                                  !.exc = r.exc, !.ref = r.ref, !.nt = Len(tensors)]

\* build(v, layer) with a value v that an earlier build returned
Rebuild(v, layer) ==
    LET r == build([heap |-> heap, tensors |-> tensors], <<Obj(v), layer>>, NoKwargs)
    IN  /\ heap' = r.h.heap
        /\ tensors' = r.h.tensors
        /\ returned' = returned
        /\ last' = [NoCall EXCEPT !.op = "rebuild", !.obj = v, !.exc = r.exc,
                                  !.ref = r.ref, !.nt = Len(tensors)]

\* v(x) for a value v that an earlier build returned
Call(v, x) ==
    /\ last' = [NoCall EXCEPT !.op = "call", !.obj = v, !.x = x, !.nt = Len(tensors),
                              !.y = Apply(heap, v, Num(x))]
    /\ UNCHANGED <<heap, tensors, returned>>

Returned == {p.ref : p \in returned}

\* The builder on the documented keys, an unknown key and '+'-joined names
StatelessNames ==
    TableKeys \cup {<<"rect:min">>, <<"bogus">>, <<"tanh", "+", "relu">>,
                    <<"linear", "+", "relu", "+", "tanh">>}

BuildStateless == \E name \in StatelessNames, layer \in Layers : Build(name, layer, NoKwargs)

RebuildAny == \E v \in Returned, layer \in Layers : Rebuild(v, layer)

CallAny == \E v \in Returned, x \in XRange : Call(v, x)

Next == BuildStateless \/ RebuildAny \/ CallAny

Spec == Init /\ [][Next]_vars

\* The builder on the registered classes, with and without the keyword 'pieces'
ParamNames ==
    {<<"prelu">>, <<"leaky-gain-relu">>, <<"maxout">>, <<"bogus">>, <<"tanh">>,
     <<"leaky-gain-relu", "+", "leaky-relu">>, <<"prelu", "+", "bogus">>}

BuildParam == \E name \in ParamNames, layer \in Layers : Build(name, layer, NoKwargs)

BuildPieces == \E layer \in Layers, kwargs \in PiecesKwargs : Build(<<"maxout">>, layer, kwargs)

NextParam == BuildParam \/ BuildPieces \/ RebuildAny \/ CallAny

SpecParam == Init /\ [][NextParam]_vars

\* The rectifiers of the table, built and applied
RectNames == {<<"relu">>, <<"rect:max">>, <<"rect:minmax">>}

BuildRect == \E name \in RectNames, layer \in Layers : Build(name, layer, NoKwargs)

NextFn == BuildRect \/ CallAny

SpecFn == Init /\ [][NextFn]_vars

----------------------------------------------------------------------------
\* Properties

Resolvable(key) == key \in TableKeys \cup RegistryKeys

IsChain(name) ==
    /\ Contains(name, "+")
    /\ \A i \in 1..Len(split(name, "+")) : Resolvable(split(name, "+")[i])

\* The transform the table holds under a key, on a heap of its own
KeyApply(key, v) ==
    LET fn == CASE key = <<"logistic">> -> "sigmoid" [] OTHER -> key[1]
    IN  Apply(<<[BlankObj EXCEPT !.fn = fn]>>, 1, v)

RECURSIVE ChainValue(_, _, _)
ChainValue(names, i, v) ==
    IF i > Len(names) THEN v ELSE ChainValue(names, i + 1, KeyApply(names[i], v))

\* C1: build of a '+'-joined name whose sub-names are all resolvable returns, and
\* the result applied to x is kn(...k2(k1(x))...), the sub-activations applied left
\* to right.
C1_ComposedLeftToRight ==
    (last.op = "build" /\ IsChain(last.name)) =>
        /\ last.exc = ""
        /\ \A x \in XRange :
              Apply(heap, last.ref, Num(x)) = ChainValue(split(last.name, "+"), 1, Num(x))

ParamCount(key) ==
    CASE Registry(key) = "Prelu" -> 1
      [] Registry(key) = "LGrelu" -> 2
      [] Registry(key) = "Maxout" -> 2
      [] OTHER -> 0

RECURSIVE SumParamCount(_, _)
SumParamCount(names, i) ==
    IF i > Len(names) THEN 0 ELSE ParamCount(names[i]) + SumParamCount(names, i + 1)

\* C2: the activation built for a '+'-joined name has a parameter list that is the
\* concatenation of its constituents' lists in composition order: the tensors this
\* call allocated, each once, in the order of their allocation.
C2_ComposedParamsConcatenated ==
    (last.op = "build" /\ IsChain(last.name)) =>
        /\ last.exc = ""
        /\ heap[last.ref].hasParams
        /\ Len(heap[last.ref].params) = SumParamCount(split(last.name, "+"), 1)
        /\ heap[last.ref].params = [i \in 1..(Len(tensors) - last.nt) |-> last.nt + i]

\* C3: build given a value that an earlier build returned returns that value, raises
\* nothing and allocates no tensor.
C3_BuiltValuePassesThrough ==
    last.op = "rebuild" =>
        /\ last.exc = ""
        /\ last.ref = last.obj
        /\ Len(tensors) = last.nt

\* C4: every activation a build call returned for a key of the function table has
\* that key as its name and an empty parameter list, whatever was built later.
C4_EarlierResultsKeepName ==
    \A p \in returned :
        p.key \in TableKeys =>
            /\ heap[p.ref].name = p.key
            /\ heap[p.ref].hasParams
            /\ heap[p.ref].params = <<>>

\* C5: build with a key that is in neither the function table nor the registry ends
\* in the unknown-activation error and changes neither the objects nor the tensors.
C5_UnknownKeyNoEffect ==
    [][(/\ last'.op = "build"
        /\ ~Contains(last'.name, "+")
        /\ ~Resolvable(last'.name))
       => (/\ last'.exc = "UnknownActivation"
           /\ last'.ref = 0
           /\ heap' = heap
           /\ tensors' = tensors)]_vars

C5_Witness ==
    /\ last.op = "build"
    /\ last.name = <<"bogus">>
    /\ last.exc = "UnknownActivation"
    /\ Len(tensors) > 0
    /\ \E p \in returned : p.key = <<"tanh">>

\* C6: constructing Maxout fails exactly when 'pieces' is absent or is not a
\* positive integer, and a failed construction has allocated no tensor.
C6_MaxoutNeedsPositivePieces ==
    (last.op = "build" /\ last.name = <<"maxout">>) =>
        LET valid == /\ "pieces" \in DOMAIN last.kwargs
                     /\ last.kwargs["pieces"].type = "int"
                     /\ last.kwargs["pieces"].v > 0
        IN  /\ valid <=> last.exc = ""
            /\ last.exc # "" => Len(tensors) = last.nt

\* C7: any two distinct allocated tensors carry distinct names.
C7_TensorNamesUnique ==
    \A i, j \in 1..Len(tensors) : i # j => tensors[i].name # tensors[j].name

\* C8: the parameter list of a parametric activation is the one its constructor
\* made, [leak], [gain, leak] or [slope, intercept] with the shapes the layer size
\* and the piece count give, and no later call or build changes the list or a tensor.
C8_Layout ==
    \A r \in 1..Len(heap) :
        LET o == heap[r]
            n == o.layer.size
        IN  /\ o.cls = "Prelu" =>
                  /\ o.params = <<o.leak>>
                  /\ tensors[o.leak].name = _fmt(o.layer, "leak")
                  /\ tensors[o.leak].shape = <<n>>
            /\ o.cls = "LGrelu" =>
                  /\ o.params = <<o.gain, o.leak>>
                  /\ o.gain # o.leak
                  /\ tensors[o.gain].name = _fmt(o.layer, "gain")
                  /\ tensors[o.leak].name = _fmt(o.layer, "leak")
                  /\ tensors[o.gain].shape = <<n>>
                  /\ tensors[o.leak].shape = <<n>>
            /\ o.cls = "Maxout" =>
                  /\ o.params = <<o.slope, o.intercept>>
                  /\ o.slope # o.intercept
                  /\ tensors[o.slope].name = _fmt(o.layer, "slope")
                  /\ tensors[o.intercept].name = _fmt(o.layer, "intercept")
                  /\ tensors[o.slope].shape = <<n, o.pieces>>
                  /\ tensors[o.intercept].shape = <<o.pieces>>

C8_Frozen ==
    /\ \A r \in 1..Len(heap) :
          isinstance(heap[r], "Activation") =>
              /\ r \in 1..Len(heap')
              /\ heap'[r].cls = heap[r].cls
              /\ heap'[r].params = heap[r].params
    /\ \A t \in 1..Len(tensors) : t \in 1..Len(tensors') /\ tensors'[t] = tensors[t]

DocKeys ==
    {<<"tanh">>, <<"logistic">>, <<"sigmoid">>, <<"softmax">>, <<"linear">>,
     <<"softplus">>, <<"relu">>, <<"rect:max">>, <<"rect:min">>, <<"rect:minmax">>,
     <<"norm:mean">>, <<"norm:max">>, <<"norm:std">>, <<"norm:z">>}

DocAlternatives == {{<<"logistic">>, <<"sigmoid">>}, {<<"relu">>, <<"rect:max">>}}

\* C9: every key the module documentation lists is built to a stateless activation
\* with an empty parameter list, and two keys it gives as alternatives are built to
\* the same transform.
C9_DocumentedKeysResolve ==
    /\ (last.op = "build" /\ last.name \in DocKeys) =>
          /\ last.exc = ""
          /\ ~isinstance(heap[last.ref], "Activation")
          /\ heap[last.ref].hasParams
          /\ heap[last.ref].params = <<>>
    /\ \A p, q \in returned :
          {p.key, q.key} \in DocAlternatives =>
              \A x \in XRange : Apply(heap, p.ref, Num(x)) = Apply(heap, q.ref, Num(x))

Max(a, b) == IF a >= b THEN a ELSE b

====
